---------------------------- MODULE Spec2Model ----------------------------
(***************************************************************************)
(* A model of urbit/keygen-js (src/src/index.js): the derivation of child  *)
(* seeds and key material from a root seed, the assembly of a full wallet, *)
(* and the 2-of-3 sharding of a secret.                                    *)
(*                                                                         *)
(* Values.  A byte string (the bytes of a buffer, the character codes of a  *)
(* string) is a sequence of segments                                       *)
(*     [t |-> tag, lo |-> first, hi |-> last, of |-> argument, lit |-> ..] *)
(* A literal segment (t = "lit") holds its byte values in lit.  The output *)
(* of an external primitive (SHA-512, tweetnacl, bip32) is not computed:   *)
(* bytes lo..hi (hi < lo: in reverse order) of primitive `tag' applied to  *)
(* the byte string `of' are one segment, so two outputs are equal exactly  *)
(* when primitive, positions and input are equal (an ideal, collision-free *)
(* primitive).  The hex digits of bytes that are not literal are the       *)
(* segment "hex" of those bytes.  Byte strings are kept in normal form:    *)
(* no empty segment, no two adjacent segments that could be one.           *)
(* A JavaScript value is a record [k |-> kind, n |-> number, s |-> bytes]. *)
(***************************************************************************)
EXTENDS Integers, Sequences, FiniteSets

VARIABLES
    \* ---- shard / combine calls
    shardArg,      \* the hex string last given to shard
    pads,          \* <<r1, r2>>: the pads crypto.getRandomValues returned
    shards,        \* what shard returned: a sequence of hex strings
    combineArg,    \* the shards last given to combine
    combineRet,    \* what combine did: [threw, val]
    called,        \* the sharding call made last: "none", "shard", "combine"
    \* ---- calls of the derivation functions
    derived,       \* the derivation call made last, with what it returned
    \* ---- one call of fullWalletFromSeed
    wpc,           \* where the call is: the await it is suspended at
    wcfg,          \* its config: ownerSeed, ships, password, revisions, boot
    revs,          \* _revisions
    nodes,         \* ownershipNode, managementNode, delegateNode
    outstanding,   \* the promises given to Promise.all not yet settled (indices)
    settled,       \* the values Promise.all has collected so far
    lists,         \* transferNodes, spawnNodes, networkSeeds, networkNodes
    wallet,        \* what the call resolved to
    ticket,        \* the call of fullWalletFromTicket, if the wallet is made by one
    shardedCall    \* the call of shardWallet on the wallet, with what it returned

shardVars == <<shardArg, pads, shards, combineArg, combineRet, called>>

walletVars == <<wpc, wcfg, revs, nodes, outstanding, settled, lists, wallet,
                ticket, shardedCall>>

vars == <<shardArg, pads, shards, combineArg, combineRet, called, derived,
          wpc, wcfg, revs, nodes, outstanding, settled, lists, wallet,
          ticket, shardedCall>>

-----------------------------------------------------------------------------
(* Bounds of the model *)

\* Longest secret given to shard, in bytes.
MaxSecretLen == 1

\* Longest of the short seeds, in bytes.
MaxSeedLen == 2

\* Largest revision number.
MaxRevision == 1

\* Largest ship number.
MaxShip == 1

\* Most ships given to fullWalletFromSeed.
MaxShips == 2

\* The byte values secrets and pads are drawn from: a subgroup of the bytes
\* under XOR, so that the pads range over a set closed under the operation
\* shardBuffer applies (as the 256 byte values are).
PadBytes == {0, 1, 254, 255}

-----------------------------------------------------------------------------
(* Byte strings *)

LitSeg(ints) == [t |-> "lit", lo |-> 0, hi |-> 0, of |-> <<>>, lit |-> ints]

\* The byte string (or the string) of the given byte values (character codes).
LitBytes(ints) == IF ints = <<>> THEN <<>> ELSE <<LitSeg(ints)>>

PrimSeg(tag, lo, hi, arg) == [t |-> tag, lo |-> lo, hi |-> hi, of |-> arg, lit |-> <<>>]

HexSeg(inner) == [t |-> "hex", lo |-> 0, hi |-> 0, of |-> inner, lit |-> <<>>]

IsLit(g) == g.t = "lit"

IsHex(g) == g.t = "hex"

IsPrim(g) == ~IsLit(g) /\ ~IsHex(g)

Max(a, b) == IF a >= b THEN a ELSE b

Min(a, b) == IF a <= b THEN a ELSE b

Abs(x) == IF x < 0 THEN 0 - x ELSE x

\* Sequences over S of length lo..hi.
SeqsOf(S, lo, hi) == UNION {[1..n -> S] : n \in lo..hi}

\* The number of bytes (characters) of a byte string.
RECURSIVE BLen(_)
BLen(bytes) ==
    IF bytes = <<>> THEN 0
    ELSE LET g == Head(bytes)
         IN  (CASE IsLit(g) -> Len(g.lit)
                [] IsHex(g) -> 2 * BLen(g.of)
                [] OTHER    -> Abs(g.hi - g.lo) + 1)
             + BLen(Tail(bytes))

Dir(g) == IF g.hi > g.lo THEN 1 ELSE IF g.hi < g.lo THEN -1 ELSE 0

\* Segment b goes on where segment a ends, in the same output and direction.
Follows(a, b) ==
    /\ a.t = b.t
    /\ a.of = b.of
    /\ \E d \in {1, -1} :
          b.lo = a.hi + d /\ Dir(a) \in {0, d} /\ Dir(b) \in {0, d}

\* Concatenation.
RECURSIVE Cat(_, _)
Cat(a, b) ==
    IF a = <<>> THEN b
    ELSE IF b = <<>> THEN a
    ELSE LET x == a[Len(a)]
             y == b[1]
             front == SubSeq(a, 1, Len(a) - 1)
             back  == Tail(b)
         IN  IF IsLit(x) /\ IsLit(y)
             THEN front \o <<LitSeg(x.lit \o y.lit)>> \o back
             ELSE IF IsHex(x) /\ IsHex(y)
             THEN front \o <<HexSeg(Cat(x.of, y.of))>> \o back
             ELSE IF IsPrim(x) /\ IsPrim(y) /\ Follows(x, y)
             THEN front \o <<PrimSeg(x.t, x.lo, y.hi, x.of)>> \o back
             ELSE a \o b

\* The first n bytes of a segment longer than n (n >= 1).  Part of the hex
\* digits of non-literal bytes is written as characters lo..hi of them.
SegTake(g, n) ==
    CASE IsLit(g) -> LitSeg(SubSeq(g.lit, 1, n))
      [] IsHex(g) -> PrimSeg("chars", 1, n, <<g>>)
      [] OTHER    -> PrimSeg(g.t, g.lo, g.lo + Dir(g) * (n - 1), g.of)

SegDrop(g, n) ==
    CASE IsLit(g) -> LitSeg(SubSeq(g.lit, n + 1, Len(g.lit)))
      [] IsHex(g) -> PrimSeg("chars", n + 1, 2 * BLen(g.of), <<g>>)
      [] OTHER    -> PrimSeg(g.t, g.lo + Dir(g) * n, g.hi, g.of)

\* slice(0, n)
RECURSIVE Take(_, _)
Take(bytes, n) ==
    IF n <= 0 \/ bytes = <<>> THEN <<>>
    ELSE LET g == Head(bytes)
             m == BLen(<<g>>)
         IN  IF n >= m THEN <<g>> \o Take(Tail(bytes), n - m)
             ELSE <<SegTake(g, n)>>

\* slice(n)
RECURSIVE Drop(_, _)
Drop(bytes, n) ==
    IF bytes = <<>> THEN <<>>
    ELSE IF n <= 0 THEN bytes
    ELSE LET g == Head(bytes)
             m == BLen(<<g>>)
         IN  IF n >= m THEN Drop(Tail(bytes), n - m)
             ELSE <<SegDrop(g, n)>> \o Tail(bytes)

\* The sequence xs in reverse order.
Reversed(xs) == [i \in 1..Len(xs) |-> xs[Len(xs) + 1 - i]]

RevSeg(g) ==
    CASE IsLit(g) -> LitSeg(Reversed(g.lit))
      [] IsHex(g) -> PrimSeg("chars", 2 * BLen(g.of), 1, <<g>>)
      [] OTHER    -> PrimSeg(g.t, g.hi, g.lo, g.of)

\* Array.prototype.reverse on the bytes of a buffer (the value; where the
\* code relies on the reversal being in place, the caller below says so).
reverse(bytes) == [i \in 1..Len(bytes) |-> RevSeg(bytes[Len(bytes) + 1 - i])]

\* x ^ y on non-negative integers.
RECURSIVE BitXor(_, _)
BitXor(x, y) ==
    IF x = 0 THEN y
    ELSE IF y = 0 THEN x
    ELSE ((x + y) % 2) + 2 * BitXor(x \div 2, y \div 2)

\* splitAt(index, str): str.slice(0, index) and str.slice(index).
splitAt(index, str) == <<Take(str, index), Drop(str, index)>>

\* Buffer.from(arr) for an array of numbers: each taken modulo 256.
bufferFrom(arr) == LitBytes([i \in 1..Len(arr) |-> arr[i] % 256])

\* Array.from(buffer): the numbers of a buffer of literal bytes.
arrayFrom(buffer) == IF buffer = <<>> THEN <<>> ELSE buffer[1].lit

\* The character code of hex digit d (0..15), lower case.
HexDigit(d) == IF d < 10 THEN 48 + d ELSE 87 + d

\* The value of a character code as a hex digit, -1 when it is none
\* (Buffer's hex decoder takes both cases).
HexVal(c) ==
    IF c >= 48 /\ c <= 57 THEN c - 48
    ELSE IF c >= 97 /\ c <= 102 THEN c - 87
    ELSE IF c >= 65 /\ c <= 70 THEN c - 55
    ELSE -1

\* b.toString(16).padStart(2, '0') for every byte b, joined.
RECURSIVE HexChars(_)
HexChars(ints) ==
    IF ints = <<>> THEN <<>>
    ELSE <<HexDigit(Head(ints) \div 16), HexDigit(Head(ints) % 16)>>
            \o HexChars(Tail(ints))

RECURSIVE buf2hex(_)
buf2hex(buffer) ==
    IF buffer = <<>> THEN <<>>
    ELSE LET g == Head(buffer)
         IN  Cat(IF IsLit(g) THEN LitBytes(HexChars(g.lit)) ELSE <<HexSeg(<<g>>)>>,
                 buf2hex(Tail(buffer)))

\* The bytes of the longest prefix of character codes that is pairs of hex digits.
RECURSIVE DecodeHex(_)
DecodeHex(codes) ==
    IF Len(codes) < 2 THEN <<>>
    ELSE IF HexVal(codes[1]) < 0 \/ HexVal(codes[2]) < 0 THEN <<>>
    ELSE <<16 * HexVal(codes[1]) + HexVal(codes[2])>>
            \o DecodeHex(SubSeq(codes, 3, Len(codes)))

\* Buffer.from(hex, 'hex'): decodes two characters at a time and stops at the
\* first pair that is not two hex digits; a trailing odd character is dropped.
RECURSIVE hex2buf(_)
hex2buf(hex) ==
    IF hex = <<>> THEN <<>>
    ELSE LET g == Head(hex)
         IN  IF IsLit(g)
             THEN LET d == DecodeHex(g.lit)
                  IN  IF 2 * Len(d) = Len(g.lit)
                      THEN Cat(LitBytes(d), hex2buf(Tail(hex)))
                      ELSE LitBytes(d)
             ELSE IF IsHex(g) THEN Cat(g.of, hex2buf(Tail(hex)))
             ELSE <<>>

-----------------------------------------------------------------------------
(* JavaScript values *)

Undefined == [k |-> "undefined", n |-> 0, s |-> <<>>]

Null == [k |-> "null", n |-> 0, s |-> <<>>]

\* A finite integer number (the model has no NaN and no Infinity).
Num(n) == [k |-> "number", n |-> n, s |-> <<>>]

\* A string, by its characters.
Str(chars) == [k |-> "string", n |-> 0, s |-> chars]

\* A Buffer (or Uint8Array, or ArrayBuffer), by its bytes.
Buf(bytes) == [k |-> "buffer", n |-> 0, s |-> bytes]

True == [k |-> "boolean", n |-> 1, s |-> <<>>]

False == [k |-> "boolean", n |-> 0, s |-> <<>>]

isUndefined(a) == a.k = "undefined"

\* typeof a === 'number' && isFinite(a); every number of the model is finite.
isNumber(a) == a.k = "number"

defaultToCoerced(a, d) ==
    IF isUndefined(a)
    THEN [k |-> "string", n |-> 0,
          s |-> LitBytes(<<117, 110, 100, 101, 102, 105, 110, 101, 100>>)]
    ELSE a

defaultTo(a, d) == IF isUndefined(a) THEN d ELSE a

\* The decimal digits of a non-negative integer.
RECURSIVE Digits(_)
Digits(n) ==
    IF n < 10 THEN <<48 + n>>
    ELSE Append(Digits(n \div 10), 48 + (n % 10))

\* What a template literal `${a}` makes of a value.
ToString(a) ==
    CASE a.k = "string"    -> a.s
      [] a.k = "number"    -> LitBytes(IF a.n < 0 THEN <<45>> \o Digits(0 - a.n)
                                       ELSE Digits(a.n))
      [] a.k = "undefined" -> LitBytes(<<117, 110, 100, 101, 102, 105, 110, 101, 100>>)
      [] a.k = "null"      -> LitBytes(<<110, 117, 108, 108>>)
      [] a.k = "boolean"   -> IF a.n = 1 THEN LitBytes(<<116, 114, 117, 101>>)
                              ELSE LitBytes(<<102, 97, 108, 115, 101>>)
      [] OTHER             -> a.s

\* '-'
Dash == LitBytes(<<45>>)

\* Buffer.from(a) for a string (its UTF-8 bytes: the character codes, the
\* model's strings being ASCII) or a buffer (a copy).
bufferFromValue(a) == a.s

\* a.length || a.byteLength: a string has no byteLength, so an empty string
\* gives undefined; a buffer's two lengths agree.
lengthOrByteLength(a) ==
    IF a.k = "string" /\ BLen(a.s) = 0 THEN Undefined ELSE Num(BLen(a.s))

-----------------------------------------------------------------------------
(* External primitives, as ideal functions of their input *)

\* The bytes of a SHA-512 digest (crypto.subtle.digest, and tweetnacl's
\* crypto_hash, which writes 64 bytes).
DigestLen == 64

\* bip32: a compressed public key, a private key, a chain code.
PublicKeyLen == 33

PrivateKeyLen == 32

ChainCodeLen == 32

\* tweetnacl: the seed nacl.sign.keyPair.fromSeed takes, and its public key.
SignSeedLen == 32

SignPublicKeyLen == 32

\* The len bytes that primitive `tag' makes of the byte string `bytes'.
Primitive(tag, len, bytes) == <<PrimSeg(tag, 1, len, bytes)>>

-----------------------------------------------------------------------------
(* Derivation *)

\* Buffer.concat(args.map(a => Buffer.from(a)))
RECURSIVE concatValues(_)
concatValues(args) ==
    IF args = <<>> THEN <<>>
    ELSE Cat(bufferFromValue(Head(args)), concatValues(Tail(args)))

\* hash(...args): SHA-512 of the concatenation.
hash(args) == Primitive("sha512", DigestLen, concatValues(args))

\* ArrayBuffer.prototype.slice(0, end): end undefined is the whole buffer.
sliceTo(bytes, end) == IF isUndefined(end) THEN bytes ELSE Take(bytes, end.n)

saltTruthyShip(type, revision, ship) ==
    IF isNumber(ship) /\ ship.n # 0
    THEN Cat(ToString(type),
             Cat(Dash, Cat(ToString(revision), Cat(Dash, ToString(ship)))))
    ELSE Cat(ToString(type), Cat(Dash, ToString(revision)))

saltNoShip(type, revision, ship) ==
    Cat(ToString(type), Cat(Dash, ToString(revision)))

\* isNumber(ship) ? `${type}-${revision}-${ship}` : `${type}-${revision}`
saltOf(type, revision, ship) ==
    IF isNumber(ship)
    THEN Cat(ToString(type),
             Cat(Dash, Cat(ToString(revision), Cat(Dash, ToString(ship)))))
    ELSE Cat(ToString(type), Cat(Dash, ToString(revision)))

\* What childSeedFromSeed gives to hash.
childSeedHashArgs(config) ==
    <<config.seed,
      Str(saltOf(config.type, config.revision, config.ship)),
      defaultTo(config.password, Str(<<>>))>>

sliceToDigest(config, digest) == digest

\* childSeed.slice(0, seed.length || seed.byteLength)
sliceToSeed(config, digest) ==
    sliceTo(digest, lengthOrByteLength(config.seed))

\* childSeedFromSeed(config): the bytes of the child seed.
childSeedFromSeed(config) ==
    LET childSeed == hash(childSeedHashArgs(config))
    IN  sliceToSeed(config, childSeed)

\* walletFromSeed(seed, password)
walletFromSeed(seed, password) ==
    LET seedHash == hash(<<seed, defaultTo(password, Str(<<>>))>>)
    IN  [public  |-> buf2hex(Primitive("bip32.publicKey", PublicKeyLen, seedHash)),
         private |-> buf2hex(Primitive("bip32.privateKey", PrivateKeyLen, seedHash)),
         chain   |-> buf2hex(Primitive("bip32.chainCode", ChainCodeLen, seedHash))]

\* childNodeFromSeed(config)
childNodeFromSeed(config) ==
    LET childSeed == childSeedFromSeed(config)
        childSeedBuffer == buf2hex(childSeed)
    IN  [meta |-> [type     |-> config.type,
                   revision |-> defaultTo(config.revision, Num(0)),
                   ship     |-> IF ~isUndefined(config.ship) THEN config.ship
                                ELSE Null],
         seed |-> childSeedBuffer,
         keys |-> walletFromSeed(Str(childSeedBuffer), config.password)]

\* Buffer.concat(arr): a TypeError unless every element is a buffer.
bufferConcat(arr) ==
    IF \A i \in 1..Len(arr) : arr[i].k = "buffer"
    THEN [threw |-> FALSE, val |-> concatValues(arr)]
    ELSE [threw |-> TRUE, val |-> <<>>]

\* naclHash(seed): crypto_hash of seed.reverse(), the buffer reversed in place
\* (the buffer is the fresh one bufferConcat made, used nowhere else).
naclHash(seed) == Primitive("crypto_hash", DigestLen, reverse(seed))

authHalfSwapped(h) == Drop(h, SignSeedLen)

\* h.slice(0, 32)
authHalf(h) == Take(h, SignSeedLen)

\* h.slice(32)
cryptHalf(h) == Drop(h, SignSeedLen)

\* nacl.sign.keyPair.fromSeed(seed).publicKey
signPublicKey(seed) == Primitive("sign.publicKey", SignPublicKeyLen, seed)

\* urbitKeysFromSeed(seed, password).  c and a are copies of the halves of h;
\* each keypair is made from a copy of its half (bufferFrom) before reverse
\* turns the half around in place for the output.
urbitKeysFromSeed(seed, password) ==
    LET joined == bufferConcat(<<seed, password>>)
        h     == naclHash(joined.val)
        c     == cryptHalf(h)
        a     == authHalf(h)
        crypt == signPublicKey(c)
        auth  == signPublicKey(a)
    IN  IF joined.threw
        THEN [threw |-> TRUE,
              crypt |-> [private |-> <<>>, public |-> <<>>],
              auth  |-> [private |-> <<>>, public |-> <<>>]]
        ELSE [threw |-> FALSE,
              crypt |-> [private |-> buf2hex(reverse(c)),
                         public  |-> buf2hex(reverse(crypt))],
              auth  |-> [private |-> buf2hex(reverse(a)),
                         public  |-> buf2hex(reverse(auth))]]

-----------------------------------------------------------------------------
(* Sharding *)

\* lodash.zipWith(acc, arr, (x, y) => x ^ y): as long as the longer array; a
\* missing element is undefined, which ^ takes as 0.
zipWithXor(acc, arr) ==
    [i \in 1..Max(Len(acc), Len(arr)) |->
        BitXor(IF i <= Len(acc) THEN acc[i] ELSE 0,
               IF i <= Len(arr) THEN arr[i] ELSE 0)]

RECURSIVE foldXor(_, _)
foldXor(acc, arrays) ==
    IF arrays = <<>> THEN acc
    ELSE foldXor(zipWithXor(acc, Head(arrays)), Tail(arrays))

\* arrays.reduce(f) with no initial value: a TypeError on an empty array, the
\* only element when there is one, the fold otherwise.
reduceByXor(arrays) ==
    IF arrays = <<>>
    THEN [threw |-> TRUE, val |-> <<>>]
    ELSE [threw |-> FALSE, val |-> foldXor(Head(arrays), Tail(arrays))]

\* shardBuffer with the pads r1, r2 that crypto.getRandomValues returned.
shardBufferDropsPad(buffer, r1, r2) ==
    LET k  == arrayFrom(buffer)
        k1 == arrayFrom(r1)
        k2 == arrayFrom(r2)
        k0 == reduceByXor(<<k, k1>>).val
    IN  << <<k0, k1>>, <<k0, k2>>, <<k1, k2>> >>

shardBuffer(buffer, r1, r2) ==
    LET k  == arrayFrom(buffer)
        k1 == arrayFrom(r1)
        k2 == arrayFrom(r2)
        k0 == reduceByXor(<<k, k1, k2>>).val
        shard0 == <<k0, k1>>
        shard1 == <<k0, k2>>
        shard2 == <<k1, k2>>
    IN  <<shard0, shard1, shard2>>

\* lodash.reduce(pair, (acc, arr) => acc + buf2hex(bufferFrom(arr)), '')
RECURSIVE joinHex(_)
joinHex(pair) ==
    IF pair = <<>> THEN <<>>
    ELSE Cat(buf2hex(bufferFrom(Head(pair))), joinHex(Tail(pair)))

\* shard(hex), given the pads drawn.
shard(hex, r1, r2) ==
    LET buffer  == hex2buf(hex)
        sharded == shardBuffer(buffer, r1, r2)
    IN  [i \in 1..Len(sharded) |-> joinHex(sharded[i])]

\* lodash.flatten: one level.
RECURSIVE flatten(_)
flatten(xs) == IF xs = <<>> THEN <<>> ELSE Head(xs) \o flatten(Tail(xs))

\* lodash.uniqWith(xs, lodash.isEqual): the first occurrence of each value.
RECURSIVE uniqFrom(_, _)
uniqFrom(seen, xs) ==
    IF xs = <<>> THEN seen
    ELSE IF \E i \in 1..Len(seen) : seen[i] = Head(xs)
         THEN uniqFrom(seen, Tail(xs))
         ELSE uniqFrom(Append(seen, Head(xs)), Tail(xs))

uniqWith(xs) == uniqFrom(<<>>, xs)

combineBuffer(shardPairs) ==
    LET flattened == flatten(shardPairs)
        uniques   == uniqWith(flattened)
        reduced   == reduceByXor(uniques)
    IN  IF reduced.threw
        THEN [threw |-> TRUE, val |-> <<>>]
        ELSE [threw |-> FALSE, val |-> bufferFrom(reduced.val)]

\* combine(shards), shards a sequence of strings.
combine(shs) ==
    LET splat == [i \in 1..Len(shs) |-> splitAt(BLen(shs[i]) \div 2, shs[i])]
        buffers == [i \in 1..Len(splat) |->
                      [j \in 1..2 |-> arrayFrom(hex2buf(splat[i][j]))]]
        combined == combineBuffer(buffers)
    IN  IF combined.threw
        THEN [threw |-> TRUE, val |-> <<>>]
        ELSE [threw |-> FALSE, val |-> buf2hex(combined.val)]

-----------------------------------------------------------------------------
(* The calls of the sharding interface *)

\* Secrets: lower-case hex strings of 1..MaxSecretLen bytes.
SecretBuffers == {bufferFrom(a) : a \in SeqsOf(PadBytes, 1, MaxSecretLen)}

Secrets == {buf2hex(b) : b \in SecretBuffers}

\* Strings that are not pairs of hex digits: '0', '0g', '010'.
MalformedHex ==
    {LitBytes(<<48>>), LitBytes(<<48, 103>>), LitBytes(<<48, 49, 48>>)}

\* What a caller hands to shard.
ShardInputs == Secrets \cup MalformedHex

PadsOfLen(n) == {bufferFrom(a) : a \in [1..n -> PadBytes]}

\* What can have happened to a shard before it is handed to combine: it lost
\* its last character, or had it replaced by 'g'.
Damages == {"odd", "nonhex"}

Damaged(sh, damage) ==
    IF BLen(sh) = 0 THEN sh
    ELSE IF damage = "odd" THEN Take(sh, BLen(sh) - 1)
    ELSE Cat(Take(sh, BLen(sh) - 1), LitBytes(<<103>>))

\* The selections of shards a caller can hand to combine, by position.
Selections == {<<>>, <<1>>, <<2>>, <<3>>, <<1, 2>>, <<2, 3>>, <<1, 3>>, <<1, 2, 3>>}

\* What a caller hands to combine: a selection of the shards as they are, or
\* the first two with the first one damaged.
CombineInputs ==
    {<<sel, "none">> : sel \in Selections}
        \cup {<<(<<1, 2>>), damage>> : damage \in Damages}

NoResult == [threw |-> FALSE, val |-> <<>>]

ShardInit ==
    /\ shardArg = <<>>
    /\ pads = <<>>
    /\ shards = <<>>
    /\ combineArg = <<>>
    /\ combineRet = NoResult
    /\ called = "none"

NoCall == [fn |-> "none"]

\* A caller shards one secret, then combines shards of it as often as it likes.
CallShard ==
    /\ called = "none"
    /\ \E hex \in ShardInputs :
         \E r1, r2 \in PadsOfLen(BLen(hex2buf(hex))) :
           /\ shardArg' = hex
           /\ pads' = <<r1, r2>>
           /\ shards' = shard(hex, r1, r2)
           /\ combineArg' = <<>>
           /\ combineRet' = NoResult
           /\ called' = "shard"
    /\ UNCHANGED <<derived, walletVars>>

CallCombine ==
    /\ shards # <<>>
    /\ \E input \in CombineInputs :
         /\ combineArg' = [i \in 1..Len(input[1]) |->
                             IF i = 1 /\ input[2] # "none"
                             THEN Damaged(shards[input[1][i]], input[2])
                             ELSE shards[input[1][i]]]
         /\ combineRet' = combine(combineArg')
    /\ called' = "combine"
    /\ UNCHANGED <<shardArg, pads, shards, derived, walletVars>>

ShardNext == CallShard \/ CallCombine


-----------------------------------------------------------------------------
(* The calls of the derivation functions *)

\* The seed of n bytes 1, 2, ..., n.
SeedBytes(n) == LitBytes([i \in 1..n |-> i % 256])

ShortSeeds == {Buf(SeedBytes(n)) : n \in 1..MaxSeedLen} \cup {Str(LitBytes(<<115>>))}

\* Seeds as long as a digest, and one byte longer.
LongSeeds == {Buf(SeedBytes(DigestLen)), Buf(SeedBytes(DigestLen + 1))}

Manage == Str(LitBytes(<<109, 97, 110, 97, 103, 101>>))

Delegate == Str(LitBytes(<<100, 101, 108, 101, 103, 97, 116, 101>>))

Transfer == Str(LitBytes(<<116, 114, 97, 110, 115, 102, 101, 114>>))

Spawn == Str(LitBytes(<<115, 112, 97, 119, 110>>))

Network == Str(LitBytes(<<110, 101, 116, 119, 111, 114, 107>>))

Types == {Manage, Transfer}

Revisions == {Undefined} \cup {Num(r) : r \in 0..MaxRevision}

Ships == {Undefined, Null} \cup {Num(n) : n \in 0..MaxShip}

\* none, '', 'p', '-1'
Passwords ==
    {Undefined, Str(<<>>), Str(LitBytes(<<112>>)), Str(LitBytes(<<45, 49>>))}

\* Passwords as urbitKeysFromSeed takes them: buffers.
PasswordBuffers == {Undefined, Buf(<<>>), Buf(LitBytes(<<112>>))}

Configs(seeds) ==
    [seed : seeds, type : Types, revision : Revisions, ship : Ships,
     password : Passwords]

CallChildSeedFromSeed ==
    /\ derived.fn = "none"
    /\ \E config \in Configs(ShortSeeds \cup LongSeeds) :
        derived' = [fn |-> "childSeedFromSeed", config |-> config,
                    ret |-> childSeedFromSeed(config)]
    /\ UNCHANGED <<shardVars, walletVars>>

CallChildNodeFromSeed ==
    /\ derived.fn = "none"
    /\ \E config \in Configs(ShortSeeds) :
        derived' = [fn |-> "childNodeFromSeed", config |-> config,
                    ret |-> childNodeFromSeed(config)]
    /\ UNCHANGED <<shardVars, walletVars>>

CallWalletFromSeed ==
    /\ derived.fn = "none"
    /\ \E seed \in ShortSeeds \cup LongSeeds, password \in Passwords :
        derived' = [fn |-> "walletFromSeed", seed |-> seed,
                    password |-> password,
                    ret |-> walletFromSeed(seed, password)]
    /\ UNCHANGED <<shardVars, walletVars>>

CallUrbitKeysFromSeed ==
    /\ derived.fn = "none"
    /\ \E seed \in ShortSeeds \cup LongSeeds, password \in PasswordBuffers :
        derived' = [fn |-> "urbitKeysFromSeed", seed |-> seed,
                    password |-> password,
                    ret |-> urbitKeysFromSeed(seed, password)]
    /\ UNCHANGED <<shardVars, walletVars>>

DeriveNext ==
    \/ CallChildSeedFromSeed
    \/ CallChildNodeFromSeed
    \/ CallWalletFromSeed
    \/ CallUrbitKeysFromSeed

-----------------------------------------------------------------------------
(* fullWalletFromSeed *)

getNoDefault(o, k, d) == IF ~o.defined THEN d ELSE o[k]

\* get(o, k, d): d when o is undefined or has no (or an undefined) k.
get(o, k, d) ==
    IF ~o.defined THEN d
    ELSE LET r == o[k] IN IF isUndefined(r) THEN d ELSE r

\* The revisions object normalized.
normalizeRevisions(revisions) ==
    [transfer |-> get(revisions, "transfer", Num(0)),
     spawn    |-> get(revisions, "spawn", Num(0)),
     delegate |-> get(revisions, "delegate", Num(0)),
     manage   |-> get(revisions, "manage", Num(0)),
     network  |-> get(revisions, "network", Num(0))]

\* Buffer.from(a) throws a TypeError unless a is a string or a buffer (of the
\* values of the model).
bufferFromThrows(a) == a.k \notin {"string", "buffer"}

\* hash(...args) rejects when bufferFrom throws on an argument.
hashRejects(args) == \E i \in 1..Len(args) : bufferFromThrows(args[i])

\* walletFromSeed(seed, password) rejects when its hash does.
walletFromSeedRejects(seed, password) ==
    hashRejects(<<seed, defaultTo(password, Str(<<>>))>>)

\* { keys: await walletFromSeed(ownerSeed, password), seed: buf2hex(ownerSeed) }
ownershipNodeOf(config) ==
    [keys |-> walletFromSeed(config.ownerSeed, config.password),
     seed |-> buf2hex(config.ownerSeed.s)]

\* The config of the child node of the owner seed for a purpose and a ship.
ownerChildConfig(config, type, revision, ship) ==
    [seed |-> config.ownerSeed, type |-> type, revision |-> revision,
     ship |-> ship, password |-> config.password]

\* bufferFrom(managementNode.seed): Buffer.from of the hex string, with no
\* encoding given, is the UTF-8 bytes of its characters.
networkSeedParent(managementNode) == Buf(bufferFromValue(Str(managementNode.seed)))

\* The config childSeedFromSeed gets for the network seed of a ship.
networkSeedConfig(config, revisions, managementNode, ship) ==
    [seed |-> networkSeedParent(managementNode), type |-> Network,
     revision |-> revisions.network, ship |-> ship,
     password |-> config.password]

\* The object networkSeeds.map makes of seed number index.
networkNodeOf(config, revisions, seed, index) ==
    LET keys == urbitKeysFromSeed(Buf(seed),
                    Buf(bufferFromValue(defaultTo(config.password, Str(<<>>)))))
    IN  [threw |-> keys.threw,
         seed  |-> buf2hex(seed),
         keys  |-> [crypt |-> keys.crypt, auth |-> keys.auth],
         meta  |-> [type |-> Network, revision |-> revisions.network,
                    ship |-> config.ships[index]]]

\* boot === true
bootIsTrue(boot) == boot = True

\* Promise.all: a promise not yet settled, and the value of a settled one.
Unsettled == [isSettled |-> FALSE, val |-> <<>>]

\* ships.map(ship => ...): one promise per ship, none settled.
AllUnsettled(n) == [i \in 1..n |-> Unsettled]

promiseAllKeepByCompletion(values, index, value) ==
    LET first == CHOOSE j \in 1..Len(values) :
                    /\ ~values[j].isSettled
                    /\ \A l \in 1..(j - 1) : values[l].isSettled
    IN  [values EXCEPT ![first] = [isSettled |-> TRUE, val |-> value]]

\* Promise.all keeps the value of promise number index at position index.
promiseAllKeep(values, index, value) ==
    [values EXCEPT ![index] = [isSettled |-> TRUE, val |-> value]]

Values(values) == [i \in 1..Len(values) |-> values[i].val]

\* What the promise for ship number index resolves to, by the await the call
\* is suspended at.
TaskValue(index) ==
    CASE wpc = "transfer" ->
            childNodeFromSeed(ownerChildConfig(wcfg, Transfer, revs.transfer,
                                               wcfg.ships[index]))
      [] wpc = "spawn" ->
            childNodeFromSeed(ownerChildConfig(wcfg, Spawn, revs.spawn,
                                               wcfg.ships[index]))
      [] wpc = "networkSeeds" ->
            childSeedFromSeed(networkSeedConfig(wcfg, revs, nodes.manage,
                                                wcfg.ships[index]))

NoNode == [seed |-> <<>>]

NoLists == [transfer |-> <<>>, spawn |-> <<>>, networkSeeds |-> <<>>,
            networkNodes |-> <<>>]

NoWallet == [owner |-> NoNode]

WalletInit ==
    /\ wpc = "idle"
    /\ wcfg = [ships |-> <<>>]
    /\ revs = normalizeRevisions([defined |-> FALSE])
    /\ nodes = [owner |-> NoNode, manage |-> NoNode, delegate |-> NoNode]
    /\ outstanding = {}
    /\ settled = <<>>
    /\ lists = NoLists
    /\ wallet = NoWallet
    /\ ticket = NoCall
    /\ shardedCall = NoCall

\* The revisions objects given: none, {}, and { network: MaxRevision }.
RevisionsGiven ==
    {[defined |-> FALSE],
     [defined |-> TRUE, transfer |-> Undefined, spawn |-> Undefined,
      delegate |-> Undefined, manage |-> Undefined, network |-> Undefined],
     [defined |-> TRUE, transfer |-> Undefined, spawn |-> Undefined,
      delegate |-> Undefined, manage |-> Undefined,
      network |-> Num(MaxRevision)]}

WalletConfigs ==
    [ownerSeed : {Buf(SeedBytes(MaxSeedLen))},
     ships     : SeqsOf({Num(n) : n \in 0..MaxShip}, 0, MaxShips),
     password  : {Undefined, Str(LitBytes(<<112>>))},
     revisions : RevisionsGiven,
     boot      : {True, False, Undefined}]

\* fullWalletFromSeed(config), up to its first await.
Start ==
    /\ wpc = "idle"
    /\ \E config \in WalletConfigs :
          /\ wcfg' = config
          /\ revs' = normalizeRevisions(config.revisions)
    /\ wpc' = "owner"
    /\ UNCHANGED <<nodes, outstanding, settled, lists, wallet>>
    /\ UNCHANGED <<shardVars, derived, ticket, shardedCall>>

\* walletFromSeed(ownerSeed, password) settled: rejected, and the call with
\* it, or resolved.
OwnerDone ==
    /\ wpc = "owner"
    /\ IF walletFromSeedRejects(wcfg.ownerSeed, wcfg.password)
       THEN /\ wpc' = "rejected"
            /\ UNCHANGED nodes
       ELSE /\ nodes' = [nodes EXCEPT !.owner = ownershipNodeOf(wcfg)]
            /\ wpc' = "manage"
    /\ UNCHANGED <<wcfg, revs, outstanding, settled, lists, wallet>>
    /\ UNCHANGED <<shardVars, derived, ticket, shardedCall>>

\* The management node resolved.
ManageDone ==
    /\ wpc = "manage"
    /\ nodes' = [nodes EXCEPT !.manage =
                    childNodeFromSeed(ownerChildConfig(wcfg, Manage, revs.manage, Null))]
    /\ wpc' = "delegate"
    /\ UNCHANGED <<wcfg, revs, outstanding, settled, lists, wallet>>
    /\ UNCHANGED <<shardVars, derived, ticket, shardedCall>>

\* The delegate node resolved; the transfer nodes of all ships are started.
DelegateDone ==
    /\ wpc = "delegate"
    /\ nodes' = [nodes EXCEPT !.delegate =
                    childNodeFromSeed(ownerChildConfig(wcfg, Delegate, revs.delegate, Null))]
    /\ outstanding' = 1..Len(wcfg.ships)
    /\ settled' = AllUnsettled(Len(wcfg.ships))
    /\ wpc' = "transfer"
    /\ UNCHANGED <<wcfg, revs, lists, wallet>>
    /\ UNCHANGED <<shardVars, derived, ticket, shardedCall>>

\* One of the promises given to Promise.all resolves, in any order.
Settle ==
    /\ wpc \in {"transfer", "spawn", "networkSeeds"}
    /\ \E index \in outstanding :
          /\ settled' = promiseAllKeep(settled, index, TaskValue(index))
          /\ outstanding' = outstanding \ {index}
    /\ UNCHANGED <<wpc, wcfg, revs, nodes, lists, wallet>>
    /\ UNCHANGED <<shardVars, derived, ticket, shardedCall>>

\* Promise.all of the transfer nodes resolved; the spawn nodes are started.
TransferDone ==
    /\ wpc = "transfer"
    /\ outstanding = {}
    /\ lists' = [lists EXCEPT !.transfer = Values(settled)]
    /\ outstanding' = 1..Len(wcfg.ships)
    /\ settled' = AllUnsettled(Len(wcfg.ships))
    /\ wpc' = "spawn"
    /\ UNCHANGED <<wcfg, revs, nodes, wallet>>
    /\ UNCHANGED <<shardVars, derived, ticket, shardedCall>>

\* The wallet object, from the nodes and the lists made.
walletOf(ns, ls) ==
    [owner    |-> ns.owner,
     delegate |-> ns.delegate,
     manage   |-> ns.manage,
     network  |-> [i \in 1..Len(ls.networkNodes) |->
                     [seed |-> ls.networkNodes[i].seed,
                      keys |-> ls.networkNodes[i].keys,
                      meta |-> ls.networkNodes[i].meta]],
     transfer |-> ls.transfer,
     spawn    |-> ls.spawn]

\* Promise.all of the spawn nodes resolved: with boot the network seeds are
\* started, without it the wallet is returned.
SpawnDone ==
    /\ wpc = "spawn"
    /\ outstanding = {}
    /\ lists' = [lists EXCEPT !.spawn = Values(settled)]
    /\ IF bootIsTrue(wcfg.boot)
       THEN /\ outstanding' = 1..Len(wcfg.ships)
            /\ settled' = AllUnsettled(Len(wcfg.ships))
            /\ wpc' = "networkSeeds"
            /\ UNCHANGED wallet
       ELSE /\ outstanding' = {}
            /\ settled' = <<>>
            /\ wpc' = "done"
            /\ wallet' = walletOf(nodes, lists')
    /\ UNCHANGED <<wcfg, revs, nodes>>
    /\ UNCHANGED <<shardVars, derived, ticket, shardedCall>>

\* Promise.all of the network seeds resolved; the network nodes are made of
\* them (urbitKeysFromSeed is synchronous: if it throws, the call rejects).
NetworkSeedsDone ==
    /\ wpc = "networkSeeds"
    /\ outstanding = {}
    /\ LET seeds == Values(settled)
           made  == [i \in 1..Len(seeds) |-> networkNodeOf(wcfg, revs, seeds[i], i)]
       IN  /\ lists' = [lists EXCEPT !.networkSeeds = seeds, !.networkNodes = made]
           /\ wpc' = IF \E i \in 1..Len(made) : made[i].threw
                     THEN "rejected" ELSE "networkNodes"
    /\ settled' = <<>>
    /\ UNCHANGED <<wcfg, revs, nodes, outstanding, wallet>>
    /\ UNCHANGED <<shardVars, derived, ticket, shardedCall>>

\* Promise.all of the network nodes (plain values) resolved; the wallet is
\* returned.
NetworkNodesDone ==
    /\ wpc = "networkNodes"
    /\ wallet' = walletOf(nodes, lists)
    /\ wpc' = "done"
    /\ UNCHANGED <<wcfg, revs, nodes, outstanding, settled, lists>>
    /\ UNCHANGED <<shardVars, derived, ticket, shardedCall>>

\* 't'
Tickets == {Str(LitBytes(<<116>>))}

TicketConfigs ==
    [ticket    : Tickets,
     seedSize  : {MaxSeedLen},
     ships     : SeqsOf({Num(n) : n \in 0..MaxShip}, 0, MaxShips),
     password  : {Undefined, Str(LitBytes(<<112>>))},
     revisions : RevisionsGiven,
     boot      : {True, False, Undefined}]

\* The hash of what argon2u(entropy, seedSize) resolves to: seedSize bytes.
argon2uHash(entropy, seedSize) == Primitive("argon2u", seedSize, entropy.s)

\* What argon2u(ticket, seedSize).hash is: argon2u returns what argon2-wasm
\* returns, and the property is read of that before the await.  It is
\* undefined of a promise (the library's tests await argon2u before reading
\* hash), the hash of a result object.
argon2uHashRead(entropy, seedSize) ==
    {Undefined, Buf(argon2uHash(entropy, seedSize))}

\* const { ownerSeed, ships, password, revisions, boot } = config, of a config
\* that is a Buffer: it has none of the properties.
destructuredBuffer(buffer) ==
    [ownerSeed |-> Undefined, ships |-> Undefined, password |-> Undefined,
     revisions |-> [defined |-> FALSE], boot |-> Undefined]

\* fullWalletFromTicket(config), up to its await.
TicketStart ==
    /\ wpc = "idle"
    /\ \E config \in TicketConfigs :
          ticket' = [fn |-> "fullWalletFromTicket", config |-> config]
    /\ wpc' = "argon2u"
    /\ UNCHANGED <<wcfg, revs, nodes, outstanding, settled, lists, wallet>>
    /\ UNCHANGED <<shardVars, derived, shardedCall>>

\* The await is over: bufferFrom(seed) throws on an undefined seed; otherwise
\* fullWalletFromSeed(bufferFrom(seed), ships, password, revisions, boot) is
\* called, whose one parameter, config, is the buffer.
TicketSeedDone ==
    /\ wpc = "argon2u"
    /\ \E seed \in argon2uHashRead(ticket.config.ticket, ticket.config.seedSize) :
          IF bufferFromThrows(seed)
          THEN /\ wpc' = "rejected"
               /\ UNCHANGED <<wcfg, revs>>
          ELSE /\ wcfg' = destructuredBuffer(seed)
               /\ revs' = normalizeRevisions(wcfg'.revisions)
               /\ wpc' = "owner"
    /\ UNCHANGED <<nodes, outstanding, settled, lists, wallet>>
    /\ UNCHANGED <<shardVars, derived, ticket, shardedCall>>

\* The pads drawn for a seed of n bytes: the same byte n times, 0 or 1.
WalletPads(n) == {bufferFrom([i \in 1..n |-> b]) : b \in {0, 1}}

\* shardWallet(wallet), given the pads drawn: the wallet it was given, as it
\* is afterwards (only the deep copy is written to), and the wallet returned.
shardWallet(w, r1, r2) ==
    LET walletCopy == w
        shardsOfSeed == shard(walletCopy.owner.seed, r1, r2)
    IN  [wallet |-> w,
         ret    |-> [walletCopy EXCEPT !.owner.seed = shardsOfSeed]]

\* A caller shards the wallet it got.
CallShardWallet ==
    /\ wpc = "done"
    /\ shardedCall.fn = "none"
    /\ \E r1, r2 \in WalletPads(BLen(hex2buf(wallet.owner.seed))) :
          LET call == shardWallet(wallet, r1, r2)
          IN  /\ wallet' = call.wallet
              /\ shardedCall' = [fn |-> "shardWallet", arg |-> wallet,
                                 pads |-> <<r1, r2>>, ret |-> call.ret]
    /\ UNCHANGED <<wpc, wcfg, revs, nodes, outstanding, settled, lists>>
    /\ UNCHANGED <<shardVars, derived, ticket>>

WalletNext ==
    \/ Start
    \/ TicketStart
    \/ TicketSeedDone
    \/ CallShardWallet
    \/ OwnerDone
    \/ ManageDone
    \/ DelegateDone
    \/ Settle
    \/ TransferDone
    \/ SpawnDone
    \/ NetworkSeedsDone
    \/ NetworkNodesDone

-----------------------------------------------------------------------------
(* Specifications *)

Init ==
    /\ ShardInit
    /\ derived = NoCall
    /\ WalletInit

SpecShard == Init /\ [][ShardNext]_vars

SpecDerive == Init /\ [][DeriveNext]_vars

SpecWallet == Init /\ [][WalletNext]_vars

-----------------------------------------------------------------------------
(* Claims about sharding *)

\* C1 (as claimed): combine applied to any two of the three shards that
\* shard(x) returned gives back exactly x, whatever pads were drawn.
C1_RoundTripAnyPads ==
    (/\ called = "combine"
     /\ shardArg \in Secrets
     /\ Len(combineArg) = 2
     /\ \A i \in 1..2 : \E j \in 1..3 : combineArg[i] = shards[j])
        => (~combineRet.threw /\ combineRet.val = shardArg)

\* C2 (as claimed): combine given zero shards or one shard fails; it never
\* returns a byte string.
C2_FewerThanTwoFails ==
    (called = "combine" /\ Len(combineArg) <= 1) => combineRet.threw

\* The values shard i of secret y takes over all pads.
ShardValues(y, i) ==
    {shard(y, r1, r2)[i] : r1 \in PadsOfLen(BLen(hex2buf(y))),
                           r2 \in PadsOfLen(BLen(hex2buf(y)))}

ShardImage == [y \in Secrets |-> [i \in 1..3 |-> ShardValues(y, i)]]

\* C3: a single shard reveals nothing.  Each shard that shard(x) returned is
\* a value the same shard position takes for every other secret of the same
\* length, and the set of values of each position is the same for all of them.
C3_SingleShardRevealsNothing ==
    (called = "shard" /\ shardArg \in Secrets) =>
        \A y \in Secrets :
            BLen(y) = BLen(shardArg) =>
                \A i \in 1..3 :
                    /\ shards[i] \in ShardImage[y][i]
                    /\ ShardImage[y][i] = ShardImage[shardArg][i]

\* C3's case: three shards were returned and another secret of the same
\* length exists.
C3_Witness ==
    /\ called = "shard"
    /\ shardArg \in Secrets
    /\ Len(shards) = 3
    /\ \E y \in Secrets : y # shardArg /\ BLen(y) = BLen(shardArg)
    /\ pads[1] # pads[2]

\* The bytes of a full secret: 384 bits.
FullSecretLen == 48

\* C11 (as claimed): shard applied to an input shorter than a full secret
\* returns exactly one element, the input itself; only full-length inputs give
\* three shards.
C11_ShortInputPassedThrough ==
    (called = "shard" /\ BLen(shardArg) < 2 * FullSecretLen)
        => shards = <<shardArg>>

\* A string of an even number of characters, all hex digits.
C16_IsHexString(str) ==
    LET codes == IF str = <<>> THEN <<>> ELSE str[1].lit
    IN  /\ Len(codes) % 2 = 0
        /\ \A i \in 1..Len(codes) : HexVal(codes[i]) >= 0

\* C16 (as claimed): shard given a string of odd length or with a character
\* that is no hex digit returns no shards, and combine given a shard of that
\* form fails: neither returns a result computed from what it could decode.
C16_MalformedHexRejected ==
    /\ (called = "shard" /\ ~C16_IsHexString(shardArg)) => shards = <<>>
    /\ (called = "combine"
        /\ \E i \in 1..Len(combineArg) : ~C16_IsHexString(combineArg[i]))
          => combineRet.threw

-----------------------------------------------------------------------------
(* Claims about derivation *)

\* C4 (as claimed): the child seed of a non-empty parent seed of any byte
\* length has exactly the parent's byte length.
C4_ChildLengthIsParentLength ==
    (derived.fn = "childSeedFromSeed" /\ BLen(derived.config.seed.s) >= 1)
        => BLen(derived.ret) = BLen(derived.config.seed.s)

\* C4 (amended): the child seed of a non-empty parent seed has the parent's
\* byte length when the parent has at most 64 bytes, and 64 bytes (the whole
\* digest) when the parent is longer.
C4_ChildLengthIsParentLengthUpToDigest ==
    (derived.fn = "childSeedFromSeed" /\ BLen(derived.config.seed.s) >= 1)
        => BLen(derived.ret) = Min(BLen(derived.config.seed.s), DigestLen)

\* C4's case: a parent longer than the digest was derived from.
C4_Witness ==
    /\ derived.fn = "childSeedFromSeed"
    /\ BLen(derived.config.seed.s) = DigestLen + 1
    /\ BLen(derived.ret) = DigestLen

\* The target of a context as the claims see it: absent, or a number.
TargetOf(config) ==
    IF config.ship = Undefined \/ config.ship = Null THEN Null ELSE config.ship

ContextDiffers(c1, c2) ==
    \/ c1.type # c2.type
    \/ c1.revision # c2.revision
    \/ TargetOf(c1) # TargetOf(c2)

\* C5: for a fixed parent seed and password, a context that differs from the
\* call's in purpose, revision, or presence or value of the target gives a
\* different child seed; contexts with the target absent in both (and the same
\* purpose and revision) give the same child seed.
C5_SaltSensitivity ==
    derived.fn = "childSeedFromSeed" =>
        \A c2 \in Configs({derived.config.seed}) :
            c2.password = derived.config.password =>
                /\ ContextDiffers(derived.config, c2)
                      => childSeedFromSeed(c2) # derived.ret
                /\ ~ContextDiffers(derived.config, c2)
                      => childSeedFromSeed(c2) = derived.ret

\* C5's case: a call with a target, beside which the same context without
\* the target and the same context with the target absent in another way exist.
C5_Witness ==
    /\ derived.fn = "childSeedFromSeed"
    /\ derived.config.ship = Num(0)
    /\ derived.config.revision = Num(0)
    /\ \E c2 \in Configs({derived.config.seed}) :
          /\ c2.password = derived.config.password
          /\ c2.type = derived.config.type
          /\ c2.revision = derived.config.revision
          /\ c2.ship = Null

\* The same password, given the other way: '' for omitted, omitted for ''.
OtherEmpty(password) == IF isUndefined(password) THEN Str(<<>>) ELSE Undefined

IsEmptyPassword(password) == password = Undefined \/ password = Str(<<>>)

\* C6: the empty string as password is the same as no password, for
\* childSeedFromSeed and for walletFromSeed.
C6_EmptyPasswordIsNoPassword ==
    /\ (derived.fn = "childSeedFromSeed" /\ IsEmptyPassword(derived.config.password))
          => derived.ret =
                childSeedFromSeed([derived.config EXCEPT
                                      !.password = OtherEmpty(@)])
    /\ (derived.fn = "walletFromSeed" /\ IsEmptyPassword(derived.password))
          => derived.ret =
                walletFromSeed(derived.seed, OtherEmpty(derived.password))

\* C6's case: a wallet was made with the password omitted.
C6_Witness ==
    /\ derived.fn = "walletFromSeed"
    /\ derived.password = Undefined
    /\ BLen(derived.ret.public) = 2 * PublicKeyLen

\* The 64-byte hash of the byte-reversed seed || password.
C7_h(seed, password) ==
    Primitive("crypto_hash", DigestLen, reverse(Cat(seed.s, password.s)))

C7_a(seed, password) == Take(C7_h(seed, password), 32)

C7_c(seed, password) == Drop(C7_h(seed, password), 32)

C7_publicKey(half) == Primitive("sign.publicKey", SignPublicKeyLen, half)

\* C7: urbitKeysFromSeed of a seed and a password (buffers) hashes the
\* reversed seed || password, takes the first half for auth and the second
\* for crypt, makes each keypair from the un-reversed half, and gives out every
\* private half and public key reversed and hex-encoded.
C7_UrbitKeys ==
    (/\ derived.fn = "urbitKeysFromSeed"
     /\ derived.seed.k = "buffer"
     /\ derived.password.k = "buffer")
        => /\ ~derived.ret.threw
           /\ derived.ret.auth.private =
                 buf2hex(reverse(C7_a(derived.seed, derived.password)))
           /\ derived.ret.crypt.private =
                 buf2hex(reverse(C7_c(derived.seed, derived.password)))
           /\ derived.ret.auth.public =
                 buf2hex(reverse(C7_publicKey(C7_a(derived.seed, derived.password))))
           /\ derived.ret.crypt.public =
                 buf2hex(reverse(C7_publicKey(C7_c(derived.seed, derived.password))))

\* C7's case: keys were made from a seed of several bytes and a password.
C7_Witness ==
    /\ derived.fn = "urbitKeysFromSeed"
    /\ derived.seed.k = "buffer"
    /\ BLen(derived.seed.s) = 2
    /\ derived.password.k = "buffer"
    /\ BLen(derived.password.s) = 1
    /\ ~derived.ret.threw
    /\ derived.ret.auth.private # derived.ret.crypt.private

\* The character codes (byte values) of a string or buffer of known bytes.
CodesOf(a) == IF a.s = <<>> THEN <<>> ELSE a.s[1].lit

\* The salt as the claim writes it: "{purpose}-{revision}-{target}" with a
\* target, "{purpose}-{revision}" without.
C12_Salt(config) ==
    CodesOf(config.type) \o <<45>> \o Digits(config.revision.n)
        \o (IF TargetOf(config) = Null THEN <<>>
            ELSE <<45>> \o Digits(config.ship.n))

C12_Password(config) ==
    IF config.password = Undefined THEN <<>> ELSE CodesOf(config.password)

\* C12: childSeedFromSeed (with a revision given) takes its child seed from
\* the SHA-512 digest of exactly parentSeed || salt || password, the salt
\* having the target whenever one is present, target 0 included, and no
\* target when it is absent.
C12_HashesSeedSaltPassword ==
    (derived.fn = "childSeedFromSeed" /\ isNumber(derived.config.revision)) =>
        /\ Len(derived.ret) = 1
        /\ derived.ret[1].t = "sha512"
        /\ derived.ret[1].lo = 1
        /\ derived.ret[1].of =
              LitBytes(CodesOf(derived.config.seed)
                         \o C12_Salt(derived.config)
                         \o C12_Password(derived.config))

\* C12's case: a child seed for target 0 with a password.
C12_Witness ==
    /\ derived.fn = "childSeedFromSeed"
    /\ derived.config.ship = Num(0)
    /\ derived.config.revision = Num(MaxRevision)
    /\ derived.config.password = Str(LitBytes(<<112>>))
    /\ BLen(derived.ret) = BLen(derived.config.seed.s)

\* C13 (as claimed): with the revision omitted, childSeedFromSeed and
\* childNodeFromSeed give the child seed of revision 0, the revision the node's
\* metadata reports.
C13_RevisionDefaultsToZero ==
    /\ (derived.fn = "childSeedFromSeed" /\ derived.config.revision = Undefined)
          => derived.ret =
                childSeedFromSeed([derived.config EXCEPT !.revision = Num(0)])
    /\ (derived.fn = "childNodeFromSeed" /\ derived.config.revision = Undefined)
          => /\ derived.ret.meta.revision = Num(0)
             /\ derived.ret.seed =
                   childNodeFromSeed([derived.config EXCEPT
                                         !.revision = Num(0)]).seed

\* C14 (as claimed): urbitKeysFromSeed with the password omitted completes and
\* returns the keypairs of the empty password.
C14_PasswordOptional ==
    (derived.fn = "urbitKeysFromSeed"
     /\ derived.seed.k = "buffer"
     /\ derived.password = Undefined)
        => /\ ~derived.ret.threw
           /\ derived.ret = urbitKeysFromSeed(derived.seed, Buf(<<>>))

\* A context as the claims see it: purpose, revision (0 by default), target
\* or none, password ('' by default).
C18_Context(config) ==
    <<config.type,
      IF config.revision = Undefined THEN Num(0) ELSE config.revision,
      TargetOf(config),
      IF config.password = Undefined THEN Str(<<>>) ELSE config.password>>

\* C18 (as claimed): for a fixed parent seed, two contexts that differ in a
\* component give the digest different inputs seed || salt || password.
C18_DigestInputsDiffer ==
    derived.fn = "childSeedFromSeed" =>
        \A c2 \in Configs({derived.config.seed}) :
            C18_Context(c2) # C18_Context(derived.config) =>
                concatValues(childSeedHashArgs(c2))
                    # concatValues(childSeedHashArgs(derived.config))

-----------------------------------------------------------------------------
(* Claims about fullWalletFromSeed *)

Resolved == wpc = "done"

\* The node the call derives from the owner seed for ship number i.
C8_OwnerChild(type, revision, i) ==
    childNodeFromSeed(ownerChildConfig(wcfg, type, revision, wcfg.ships[i]))

\* The network node the call derives for ship number i.
C8_NetworkChild(i) ==
    LET seed == childSeedFromSeed(networkSeedConfig(wcfg, revs, nodes.manage,
                                                    wcfg.ships[i]))
        made == networkNodeOf(wcfg, revs, seed, i)
    IN  [seed |-> made.seed, keys |-> made.keys, meta |-> made.meta]

\* C8: in the wallet returned, the transfer, spawn and network lists are in
\* the order of ships: entry i of each list is the node derived for ships[i],
\* whatever the order the derivations completed in, and the lists are as long
\* as ships (nothing re-sorted, nothing deduplicated).
C8_ListsInShipsOrder ==
    Resolved =>
        /\ Len(wallet.transfer) = Len(wcfg.ships)
        /\ Len(wallet.spawn) = Len(wcfg.ships)
        /\ \A i \in 1..Len(wcfg.ships) :
              /\ wallet.transfer[i] = C8_OwnerChild(Transfer, revs.transfer, i)
              /\ wallet.transfer[i].meta.ship = wcfg.ships[i]
              /\ wallet.spawn[i] = C8_OwnerChild(Spawn, revs.spawn, i)
              /\ wallet.spawn[i].meta.ship = wcfg.ships[i]
        /\ bootIsTrue(wcfg.boot) =>
              /\ Len(wallet.network) = Len(wcfg.ships)
              /\ \A i \in 1..Len(wcfg.ships) :
                    wallet.network[i] = C8_NetworkChild(i)

\* A wallet with network nodes of two ships given in descending order.
C8_Witness ==
    /\ Resolved
    /\ bootIsTrue(wcfg.boot)
    /\ Len(wcfg.ships) = 2
    /\ wcfg.ships[1].n > wcfg.ships[2].n
    /\ wallet.transfer[1].meta.ship = wcfg.ships[1]
    /\ wallet.network[2].meta.ship = wcfg.ships[2]

\* The network revision the config asks for: revisions.network, 0 by default.
C9_NetworkRevision ==
    IF wcfg.revisions.defined
    THEN IF wcfg.revisions.network = Undefined
         THEN Num(0) ELSE wcfg.revisions.network
    ELSE Num(0)

\* C9: with boot false the wallet's network list is empty; with boot true it
\* has one node per ship, whose meta is type 'network', the network revision
\* (0 by default) and the ship.
C9_NetworkOnlyWithBoot ==
    Resolved =>
        /\ wcfg.boot = False => wallet.network = <<>>
        /\ wcfg.boot = True =>
              /\ Len(wallet.network) = Len(wcfg.ships)
              /\ \A i \in 1..Len(wcfg.ships) :
                    wallet.network[i].meta =
                        [type |-> Network, revision |-> C9_NetworkRevision,
                         ship |-> wcfg.ships[i]]

\* A wallet made with boot true, ships, and no network revision given.
C9_Witness ==
    /\ Resolved
    /\ wcfg.boot = True
    /\ Len(wcfg.ships) > 0
    /\ wcfg.revisions.defined
    /\ wcfg.revisions.network = Undefined
    /\ wallet.network[1].meta.revision = Num(0)

\* The child seed of the management seed (the bytes its hex string encodes)
\* for type network, the network revision and ship number i.
C10_ChildOfManagementSeed(i) ==
    childSeedFromSeed([seed |-> Buf(hex2buf(wallet.manage.seed)),
                       type |-> Network, revision |-> revs.network,
                       ship |-> wcfg.ships[i], password |-> wcfg.password])

\* C10: each ship's network seed is the child seed derived from the
\* management seed with type network, the network revision and the ship.
C10_NetworkSeedFromManagementSeed ==
    (Resolved /\ bootIsTrue(wcfg.boot)) =>
        \A i \in 1..Len(wcfg.ships) :
            wallet.network[i].seed = buf2hex(C10_ChildOfManagementSeed(i))

\* The bytes a node's seed decodes to.
C15_SeedSize(node) == BLen(hex2buf(node.seed))

\* C15 (as claimed): in the wallet returned, every node's seed has as many
\* bytes as the root seed: owner, manage, delegate, every transfer, spawn and
\* network node.
C15_SeedSizeNeverDrifts ==
    Resolved =>
        LET n == BLen(wcfg.ownerSeed.s)
        IN  /\ C15_SeedSize(wallet.owner) = n
            /\ C15_SeedSize(wallet.manage) = n
            /\ C15_SeedSize(wallet.delegate) = n
            /\ \A i \in 1..Len(wallet.transfer) :
                  C15_SeedSize(wallet.transfer[i]) = n
            /\ \A i \in 1..Len(wallet.spawn) :
                  C15_SeedSize(wallet.spawn[i]) = n
            /\ \A i \in 1..Len(wallet.network) :
                  C15_SeedSize(wallet.network[i]) = n

\* The wallet fullWalletFromSeed resolves to for a config.
C17_WalletFromSeed(config) ==
    LET rv == normalizeRevisions(config.revisions)
        child(type, revision, ship) ==
            childNodeFromSeed(ownerChildConfig(config, type, revision, ship))
        manage == child(Manage, rv.manage, Null)
        netSeed(i) ==
            childSeedFromSeed(networkSeedConfig(config, rv, manage, config.ships[i]))
        netNode(i) == networkNodeOf(config, rv, netSeed(i), i)
    IN  [owner    |-> ownershipNodeOf(config),
         delegate |-> child(Delegate, rv.delegate, Null),
         manage   |-> manage,
         network  |-> IF bootIsTrue(config.boot)
                      THEN [i \in 1..Len(config.ships) |->
                              [seed |-> netNode(i).seed, keys |-> netNode(i).keys,
                               meta |-> netNode(i).meta]]
                      ELSE <<>>,
         transfer |-> [i \in 1..Len(config.ships) |->
                         child(Transfer, rv.transfer, config.ships[i])],
         spawn    |-> [i \in 1..Len(config.ships) |->
                         child(Spawn, rv.spawn, config.ships[i])]]

\* C17 (as claimed): fullWalletFromTicket resolves to the wallet that
\* fullWalletFromSeed resolves to for the seedSize-byte argon2u hash of the
\* ticket as ownerSeed and the same ships, password, revisions and boot.
C17_TicketWalletIsSeedWallet ==
    (ticket.fn = "fullWalletFromTicket" /\ wpc \in {"done", "rejected"}) =>
        /\ wpc = "done"
        /\ wallet =
              C17_WalletFromSeed(
                  [ownerSeed |-> Buf(argon2uHash(ticket.config.ticket,
                                                 ticket.config.seedSize)),
                   ships     |-> ticket.config.ships,
                   password  |-> ticket.config.password,
                   revisions |-> ticket.config.revisions,
                   boot      |-> ticket.config.boot])

\* C19 (as claimed): shardWallet leaves the wallet it is given unchanged and
\* returns it with owner.seed replaced by three shards of the owner seed, any
\* two of which combine back to the owner seed.
C19_ShardWalletFrame ==
    shardedCall.fn = "shardWallet" =>
        LET ret == shardedCall.ret
            shs == ret.owner.seed
        IN  /\ wallet = shardedCall.arg
            /\ ret = [wallet EXCEPT !.owner.seed = shs]
            /\ Len(shs) = 3
            /\ \A i, j \in 1..3 :
                  i < j => combine(<<shs[i], shs[j]>>) =
                              [threw |-> FALSE, val |-> wallet.owner.seed]

=============================================================================
